---- MODULE Spec2Model ----
(***************************************************************************)
(* CorePost server (src/main.py): the time-windowed HMAC authentication of *)
(* the client and mobile endpoints, the lock/unlock confirmation protocol  *)
(* kept in the devices table, registration and the admin endpoints.        *)
(*                                                                         *)
(* A request is handled in the steps FastAPI runs it in: the Depends(...)  *)
(* dependency of a client or mobile endpoint authenticates it on its       *)
(* headers (ClientRequest, MobileRequest), and then the endpoint function  *)
(* runs (one action per endpoint, named as in the source).  The admin and  *)
(* registration endpoints have no dependency: the request arrives with its *)
(* body (ArriveAdmin, ArriveRegister) and the endpoint function runs.      *)
(* Time is the integer clock "now", in seconds; it may advance between any *)
(* two steps.                                                              *)
(*                                                                         *)
(* Four specifications: Spec is the server as `python main.py` runs it,    *)
(* one request at a time; SpecHistory is Spec with approval required and   *)
(* a history variable recording earlier lock and unlock requests;          *)
(* SpecWorkers is the app served by several processes on one devices.db,   *)
(* followed statement by statement; SpecVerifier is the authentication     *)
(* dependencies on every header a caller can send.                         *)
(*                                                                         *)
(* Python's None and "" are both written "": every test the source makes   *)
(* on an optional string is a truth test or a comparison with a non-empty  *)
(* string, which does not tell them apart.  SQL NULL is the empty tuple.   *)
(*                                                                         *)
(* Left out: column hwid and the needHWID setting.  clientRegister writes  *)
(* hwid and nothing reads it; with needHWID a registration without a hwid  *)
(* is answered 400 before it touches the table.                            *)
(***************************************************************************)
EXTENDS Integers, Sequences, FiniteSets, TLC

VARIABLES
    devices,                  \* the rows of table devices, in rowid order
    now,                      \* the wall clock, in seconds
    needRegistrationApproval, \* server.conf, read once at start
    needLockApproval,
    pc,                       \* per request slot: "idle", "auth", "handler", "update"
    req,                      \* per request slot: the request being handled
    resp,                     \* per request slot: the last response sent
    history                   \* what the table does not keep, see below

vars == <<devices, now, needRegistrationApproval, needLockApproval,
          pc, req, resp, history>>

conf == <<needRegistrationApproval, needLockApproval>>

----------------------------------------------------------------------------
(* Bounds of the model. *)

MaxTime == 1
MaxInflight == 2
lockApprovalTimeSecond == 0
hmacWindow == 0

Times == 0..MaxTime
Requests == 1..MaxInflight

(* The values secrets.token_hex returns, in the order it first returns     *)
(* them, and the other strings a caller can send.  "dx" and "ex" are       *)
(* identifiers token_hex never returns here.                               *)
DeviceIdPool == <<"d1", "d2">>
EmergencyIdPool == <<"e1", "e2">>
TokenPool == <<"k1", "k2">>
Range(seq) == {seq[i] : i \in DOMAIN seq}
DeviceIds == Range(DeviceIdPool)
EmergencyIds == Range(EmergencyIdPool)
Tokens == Range(TokenPool)

(* secrets.token_hex: a value some row already holds in that column, or a  *)
(* new one.  New values are interchangeable, so the first unused of the    *)
(* pool stands for all of them.                                            *)
token_hex(pool, used) ==
    LET unused == {i \in DOMAIN pool : pool[i] \notin used}
    IN  (Range(pool) \cap used)
        \cup {pool[i] : i \in {j \in unused : \A k \in unused : j <= k}}
adminToken == "supersecretadmin"

NULL == <<>>
Some(x) == <<x>>

----------------------------------------------------------------------------
(* Timestamps and signatures as the strings they are.  A timestamp header  *)
(* is <<form, n>>: "dec" is the canonical decimal numeral of n, "alt" is   *)
(* another numeral int() reads as n ("+1", "01", " 1"), "junk" is a string *)
(* int() raises on.  A signature header is the lowercase hex digest of a   *)
(* key and a message, some other ASCII string, or a string with a          *)
(* non-ASCII character.                                                    *)

Timestamps == ({"dec", "alt"} \X Times) \cup {<<"junk", 0>>}

CanParseInt(timestamp) == timestamp[1] # "junk"

int(timestamp) == timestamp[2]

hexdigest(secret, message) == <<"hex", secret, message[1], message[2]>>

OtherText == <<"text", "", "", 0>>
NonAscii == <<"nonascii", "", "", 0>>

Signatures ==
    {hexdigest(k, m) : k \in Tokens, m \in Timestamps} \cup {OtherText, NonAscii}

Abs(n) == IF n < 0 THEN -n ELSE n

(* hmac.compare_digest on two str: TypeError when one is not ASCII. *)
compare_digest(expected, signature) ==
    IF signature[1] = "nonascii" THEN "TypeError"
    ELSE IF expected = signature THEN "True" ELSE "False"

(* Mutant: only a timestamp of the past is stale (abs() is missing). *)
verify_hmac_past_only(secret, timestamp, signature, clock) ==
    IF ~CanParseInt(timestamp) THEN "False"
    ELSE IF clock - int(timestamp) > hmacWindow THEN "False"
    ELSE compare_digest(hexdigest(secret, timestamp), signature)

(* Mutant: the message signed is str(int(timestamp)), not the header. *)
verify_hmac_canonical(secret, timestamp, signature, clock) ==
    IF ~CanParseInt(timestamp) THEN "False"
    ELSE IF Abs(clock - int(timestamp)) > hmacWindow THEN "False"
    ELSE compare_digest(hexdigest(secret, <<"dec", int(timestamp)>>), signature)

verify_hmac(secret, timestamp, signature, clock) ==
    IF ~CanParseInt(timestamp) THEN "False"
    ELSE IF Abs(clock - int(timestamp)) > hmacWindow THEN "False"
    ELSE compare_digest(hexdigest(secret, timestamp), signature)

----------------------------------------------------------------------------
(* The devices table.  A DATETIME column holds the text isoformat() gives, *)
(* which fromisoformat() reads back.                                       *)

isoformat(t) == <<t>>

fromisoformat(text) == text[1]

Row(deviceId, emergencyId, token, lastSeen, emergencyState, userCanUnlock) ==
    [deviceId |-> deviceId, emergencyId |-> emergencyId,
     emergencyState |-> emergencyState, token |-> token,
     lastSeen |-> lastSeen,
     pendingLockTime |-> NULL, userCanUnlock |-> userCanUnlock]

Column(rows, key) == {rows[i][key] : i \in DOMAIN rows}

Matching(rows, id, key) == {i \in DOMAIN rows : rows[i][key] = id}

(* cursor.fetchone() of SELECT * ... WHERE key = id: the first row. *)
fetchone(rows, id, key) ==
    LET hit == Matching(rows, id, key)
    IN  IF hit = {} THEN NULL
        ELSE Some(rows[CHOOSE i \in hit : \A j \in hit : i <= j])

get_client_device(deviceId) == fetchone(devices, deviceId, "deviceId")

get_mobile_device_by_emergency(emergencyId) ==
    fetchone(devices, emergencyId, "emergencyId")

(* UPDATE devices SET ... WHERE key = id; set is a record of new values. *)
Update(rows, id, key, set) ==
    [i \in DOMAIN rows |->
        IF rows[i][key] = id
        THEN [f \in DOMAIN rows[i] |->
                 IF f \in DOMAIN set THEN set[f] ELSE rows[i][f]]
        ELSE rows[i]]

----------------------------------------------------------------------------
(* Requests and responses. *)

(* Besides what the caller sent, a request holds the locals of the code    *)
(* that handles it: device, the row its dependency returned, and, where    *)
(* an endpoint function is followed statement by statement, its variables  *)
(* now and pendingLockTime.                                                *)
NoRequest ==
    [endpoint |-> "", x_id |-> "", x_timestamp |-> <<"junk", 0>>,
     x_signature |-> OtherText, admin_token |-> "", deviceId |-> "",
     emergencyId |-> "", device |-> NULL, now |-> 0, pendingLockTime |-> NULL]

Response(status, detail) ==
    [status |-> status, detail |-> detail, deviceId |-> "", emergencyId |-> "",
     token |-> "", emergencyState |-> ""]

NoResponse == Response(0, "")

(* The response is sent and the request is over. *)
Reply(r, response) ==
    /\ resp' = [resp EXCEPT ![r] = response]
    /\ pc' = [pc EXCEPT ![r] = "idle"]
    /\ req' = [req EXCEPT ![r] = NoRequest]

ClientEndpoints == {"clientAmIOk", "clientDecrypt"}
MobileEndpoints == {"mobileCheck", "mobileLock", "mobileUnlock"}

----------------------------------------------------------------------------
(* The authentication dependencies.  A request to a client or mobile       *)
(* endpoint first runs the endpoint's dependency on the headers the caller *)
(* sent; the endpoint function runs only when the dependency returns.      *)

Authenticate(r, endpoint, device, x_timestamp, x_signature) ==
    IF device = NULL
    THEN /\ resp' = [resp EXCEPT ![r] = Response(401, "Device not found")]
         /\ pc' = [pc EXCEPT ![r] = "idle"]
         /\ UNCHANGED req
    ELSE LET verdict == verify_hmac(device[1].token, x_timestamp, x_signature, now)
         IN  IF verdict = "True"
             THEN /\ req' = [req EXCEPT ![r].endpoint = endpoint, ![r].device = device]
                  /\ pc' = [pc EXCEPT ![r] = "handler"]
                  /\ resp' = [resp EXCEPT ![r] = NoResponse]
             ELSE IF verdict = "False"
             THEN /\ resp' = [resp EXCEPT ![r] = Response(401, "Invalid HMAC signature")]
                  /\ pc' = [pc EXCEPT ![r] = "idle"]
                  /\ UNCHANGED req
             ELSE /\ resp' = [resp EXCEPT ![r] = Response(500, "Internal Server Error")]
                  /\ pc' = [pc EXCEPT ![r] = "idle"]
                  /\ UNCHANGED req

(* Mutant: the dependency records the contact before it has verified it. *)
verifyClientAuthTouches(r, endpoint, x_deviceid, x_timestamp, x_signature) ==
    /\ Authenticate(r, endpoint, get_client_device(x_deviceid), x_timestamp, x_signature)
    /\ devices' = [i \in DOMAIN devices |->
                      IF devices[i].deviceId = x_deviceid
                      THEN [devices[i] EXCEPT !.lastSeen = <<now>>]
                      ELSE devices[i]]
    /\ UNCHANGED <<now, conf, history>>

verifyClientAuth(r, endpoint, x_deviceid, x_timestamp, x_signature) ==
    /\ Authenticate(r, endpoint, get_client_device(x_deviceid), x_timestamp, x_signature)
    /\ UNCHANGED <<devices, now, conf, history>>

verifyMobileAuth(r, endpoint, x_emergencyid, x_timestamp, x_signature) ==
    /\ Authenticate(r, endpoint, get_mobile_device_by_emergency(x_emergencyid),
                    x_timestamp, x_signature)
    /\ UNCHANGED <<devices, now, conf, history>>

(* What a device or its owner's phone sends, and what a caller without the *)
(* key can: the current time or no number at all, with the digest some key *)
(* gives for it.                                                           *)
SentTimestamps == {<<"dec", now>>, <<"junk", 0>>}
SentSignatures(x_timestamp) == {hexdigest(k, x_timestamp) : k \in Tokens}

ClientRequest(r) ==
    /\ pc[r] = "idle"
    /\ \E endpoint \in ClientEndpoints, x_deviceid \in DeviceIds \cup {"dx"},
          x_timestamp \in SentTimestamps :
          \E x_signature \in SentSignatures(x_timestamp) :
             verifyClientAuth(r, endpoint, x_deviceid, x_timestamp, x_signature)

MobileRequest(r) ==
    /\ pc[r] = "idle"
    /\ \E endpoint \in MobileEndpoints, x_emergencyid \in EmergencyIds \cup {"ex"},
          x_timestamp \in SentTimestamps :
          \E x_signature \in SentSignatures(x_timestamp) :
             verifyMobileAuth(r, endpoint, x_emergencyid, x_timestamp, x_signature)

(* The endpoints without a dependency: the request and its body arrive. *)
ArriveRegister(r) ==
    /\ pc[r] = "idle"
    /\ \E deviceId \in DeviceIds \cup {"dx", ""} :
          req' = [req EXCEPT ![r] =
                     [NoRequest EXCEPT !.endpoint = "clientRegister",
                                       !.deviceId = deviceId]]
    /\ pc' = [pc EXCEPT ![r] = "handler"]
    /\ resp' = [resp EXCEPT ![r] = NoResponse]
    /\ UNCHANGED <<devices, now, conf, history>>

ArriveAdmin(r) ==
    /\ pc[r] = "idle"
    /\ \E endpoint \in {"adminRegister", "adminUnlock"},
          admin_token \in {adminToken, "guess"},
          deviceId \in DeviceIds \cup {"dx", ""},
          emergencyId \in EmergencyIds \cup {"ex", ""} :
          /\ endpoint = "adminRegister" => deviceId = "" /\ emergencyId = ""
          /\ req' = [req EXCEPT ![r] =
                        [NoRequest EXCEPT !.endpoint = endpoint,
                                          !.admin_token = admin_token,
                                          !.deviceId = deviceId,
                                          !.emergencyId = emergencyId]]
    /\ pc' = [pc EXCEPT ![r] = "handler"]
    /\ resp' = [resp EXCEPT ![r] = NoResponse]
    /\ UNCHANGED <<devices, now, conf, history>>

----------------------------------------------------------------------------
(* Registration. *)

Registered(device) ==
    [Response(200, "") EXCEPT !.deviceId = device.deviceId,
                              !.emergencyId = device.emergencyId,
                              !.token = device.token]

(* INSERT INTO devices: deviceId is the primary key. *)
CanInsert(rows, deviceId) == Matching(rows, deviceId, "deviceId") = {}

clientRegister(r) ==
    /\ pc[r] = "handler"
    /\ req[r].endpoint = "clientRegister"
    /\ IF needRegistrationApproval
       THEN IF req[r].deviceId = ""
            THEN /\ Reply(r, Response(400, "deviceId is required for registration approval"))
                 /\ UNCHANGED devices
            ELSE IF get_client_device(req[r].deviceId) = NULL
            THEN /\ Reply(r, Response(404, "Device not pre-registered"))
                 /\ UNCHANGED devices
            ELSE /\ devices' = Update(devices, req[r].deviceId, "deviceId",
                                      [lastSeen |-> isoformat(now)])
                 /\ Reply(r, Registered(fetchone(devices', req[r].deviceId, "deviceId")[1]))
       ELSE \E newDeviceId \in token_hex(DeviceIdPool, Column(devices, "deviceId")),
               newEmergencyId \in token_hex(EmergencyIdPool, Column(devices, "emergencyId")),
               newToken \in token_hex(TokenPool, Column(devices, "token")) :
               IF ~CanInsert(devices, newDeviceId)
               THEN /\ Reply(r, Response(500, "Database error"))
                    /\ UNCHANGED devices
               ELSE LET device == Row(newDeviceId, newEmergencyId, newToken,
                                      isoformat(now), 0, 1)
                    IN  /\ devices' = Append(devices, device)
                        /\ Reply(r, Registered(device))
    /\ UNCHANGED <<now, conf, history>>

adminRegister(r) ==
    /\ pc[r] = "handler"
    /\ req[r].endpoint = "adminRegister"
    /\ IF req[r].admin_token # adminToken
       THEN /\ Reply(r, Response(401, "Invalid admin token"))
            /\ UNCHANGED devices
       ELSE \E newDeviceId \in token_hex(DeviceIdPool, Column(devices, "deviceId")),
               newEmergencyId \in token_hex(EmergencyIdPool, Column(devices, "emergencyId")),
               newToken \in token_hex(TokenPool, Column(devices, "token")) :
               IF ~CanInsert(devices, newDeviceId)
               THEN /\ Reply(r, Response(500, "Database error"))
                    /\ UNCHANGED devices
               ELSE /\ devices' = Append(devices,
                          Row(newDeviceId, newEmergencyId, newToken, isoformat(now),
                              0, 1))
                    /\ Reply(r, [Response(200, "") EXCEPT !.deviceId = newDeviceId])
    /\ UNCHANGED <<now, conf, history>>

----------------------------------------------------------------------------
(* The client endpoints. *)

(* Mutant: the status check drops a pending request. *)
AmIOkSetClearsPending(clock) ==
    [lastSeen |-> isoformat(clock), pendingLockTime |-> NULL]

AmIOkSet(clock) == [lastSeen |-> isoformat(clock)]

clientAmIOk(r) ==
    /\ pc[r] = "handler"
    /\ req[r].endpoint = "clientAmIOk"
    /\ LET deviceId == req[r].device[1].deviceId
       IN  /\ devices' = Update(devices, deviceId, "deviceId", AmIOkSet(now))
           /\ LET row == fetchone(devices', deviceId, "deviceId")
              IN  IF row # NULL /\ row[1].emergencyState = 0
                  THEN Reply(r, Response(200, "ok"))
                  ELSE Reply(r, Response(403, "Device marked as stolen"))
    /\ UNCHANGED <<now, conf, history>>

(* Mutant: the token is released whatever the emergency state. *)
clientDecryptAlways(r) ==
    /\ pc[r] = "handler"
    /\ req[r].endpoint = "clientDecrypt"
    /\ Reply(r, [Response(200, "") EXCEPT !.token = req[r].device[1].token])
    /\ UNCHANGED <<devices, now, conf, history>>

clientDecrypt(r) ==
    /\ pc[r] = "handler"
    /\ req[r].endpoint = "clientDecrypt"
    /\ LET device == req[r].device[1]
       IN  IF device.emergencyState # 0
           THEN Reply(r, Response(403, "Device marked as stolen"))
           ELSE Reply(r, [Response(200, "") EXCEPT !.token = device.token])
    /\ UNCHANGED <<devices, now, conf, history>>

----------------------------------------------------------------------------
(* The mobile endpoints. *)

bool(n) == IF n # 0 THEN "true" ELSE "false"

(* Mutant: the window closes one second early (< for <=). *)
WithinApprovalWindowStrict(clock, pendingLockTime) ==
    clock - fromisoformat(pendingLockTime) < lockApprovalTimeSecond

(* (now - prevTime).total_seconds() <= lockApprovalTimeSecond *)
WithinApprovalWindow(clock, pendingLockTime) ==
    clock - fromisoformat(pendingLockTime) <= lockApprovalTimeSecond

(* Mutant: a first request already changes the emergency state. *)
FirstPhaseArms(clock) == [pendingLockTime |-> isoformat(clock), emergencyState |-> 1]

(* The SET clauses of the UPDATE statements of mobileLock and mobileUnlock. *)
FirstPhaseSet(clock) == [pendingLockTime |-> isoformat(clock)]

(* Mutant: the confirmed lock does not record the contact. *)
LockConfirmedKeepsLastSeen(clock) == [emergencyState |-> 1, pendingLockTime |-> NULL]

LockConfirmedSet(clock) ==
    [emergencyState |-> 1, pendingLockTime |-> NULL, lastSeen |-> isoformat(clock)]

(* Mutant: the lock path gives up on expiry, as the unlock path does. *)
LockExpiredClears(clock) == [pendingLockTime |-> NULL]

LockExpiredSet(clock) == [pendingLockTime |-> isoformat(clock)]

(* Mutant: the immediate lock does not record the contact. *)
LockAtOnceSetStateOnly(clock) == [emergencyState |-> 1]

LockAtOnceSet(clock) == [emergencyState |-> 1, lastSeen |-> isoformat(clock)]

UnlockConfirmedSet(clock) ==
    [emergencyState |-> 0, pendingLockTime |-> NULL, lastSeen |-> isoformat(clock)]

(* Mutant: the unlock path restarts the window, as the lock path does. *)
UnlockExpiredRestarts == [pendingLockTime |-> isoformat(now)]

UnlockExpiredSet == [pendingLockTime |-> NULL]

UnlockAtOnceSet(clock) == [emergencyState |-> 0, lastSeen |-> isoformat(clock)]

(* Mutant: the permission check is missing. *)
UnlockAlwaysAllowed(device) == FALSE

(* if device["userCanUnlock"] == 0 *)
NotAllowedToUnlock(device) == device.userCanUnlock = 0

mobileCheck(r) ==
    /\ pc[r] = "handler"
    /\ req[r].endpoint = "mobileCheck"
    /\ Reply(r, [Response(200, "") EXCEPT
                    !.emergencyState = bool(req[r].device[1].emergencyState)])
    /\ UNCHANGED <<devices, now, conf, history>>

(* The history variable: for each deviceId, pendingBy is the endpoint      *)
(* whose first phase wrote the pendingLockTime the row holds ("" when it   *)
(* holds none), and lockedAt the time of the latest lock request for the   *)
(* device with no unlock request, by the owner or the admin, since.  The   *)
(* program keeps neither; they are recorded, in the specification that     *)
(* sets history.recording, to state properties about earlier requests.     *)
NoHistory == [pendingBy |-> "", lockedAt |-> NULL]

Recorded(r) ==
    LET endpoint == req[r].endpoint
        deviceId == req[r].device[1].deviceId
        row == fetchone(devices', deviceId, "deviceId")
    IN  IF ~history.recording THEN history
        ELSE [history EXCEPT !.device[deviceId] =
                [pendingBy |-> IF resp'[r].status = 201 THEN endpoint
                               ELSE IF row # NULL /\ row[1].pendingLockTime = NULL
                               THEN ""
                               ELSE @.pendingBy,
                 lockedAt |-> IF endpoint = "mobileLock" THEN <<now>> ELSE NULL]]

LockPending == Response(201, "Lock request received. Please confirm within the approval window.")
Locked == Response(200, "Device locked (stolen)")

mobileLock(r) ==
    /\ pc[r] = "handler"
    /\ req[r].endpoint = "mobileLock"
    /\ LET deviceId == req[r].device[1].deviceId
           row == fetchone(devices, deviceId, "deviceId")
       IN  IF row = NULL
           THEN Reply(r, Response(404, "Device not found")) /\ UNCHANGED devices
           ELSE LET pendingLockTime == row[1].pendingLockTime
                IN  IF needLockApproval
                    THEN IF pendingLockTime = NULL
                         THEN /\ devices' = Update(devices, deviceId, "deviceId",
                                                   FirstPhaseSet(now))
                              /\ Reply(r, LockPending)
                         ELSE IF WithinApprovalWindow(now, pendingLockTime)
                         THEN /\ devices' = Update(devices, deviceId, "deviceId",
                                                   LockConfirmedSet(now))
                              /\ Reply(r, Locked)
                         ELSE /\ devices' = Update(devices, deviceId, "deviceId",
                                                   LockExpiredSet(now))
                              /\ Reply(r, LockPending)
                    ELSE /\ devices' = Update(devices, deviceId, "deviceId",
                                              LockAtOnceSet(now))
                         /\ Reply(r, Locked)
    /\ history' = Recorded(r)
    /\ UNCHANGED <<now, conf>>

UnlockPending == Response(201, "Unlock request received. Please confirm within the approval window.")
Unlocked == Response(200, "Device unlocked")

mobileUnlock(r) ==
    /\ pc[r] = "handler"
    /\ req[r].endpoint = "mobileUnlock"
    /\ LET device == req[r].device[1]
           deviceId == device.deviceId
       IN  IF NotAllowedToUnlock(device)
           THEN /\ Reply(r, Response(403, "Device is not allowed to unlock"))
                /\ UNCHANGED devices
           ELSE IF needLockApproval
           THEN LET pendingLockTime ==
                        fetchone(devices, deviceId, "deviceId")[1].pendingLockTime
                IN  IF pendingLockTime = NULL
                    THEN /\ devices' = Update(devices, deviceId, "deviceId",
                                              FirstPhaseSet(now))
                         /\ Reply(r, UnlockPending)
                    ELSE IF WithinApprovalWindow(now, pendingLockTime)
                    THEN /\ devices' = Update(devices, deviceId, "deviceId",
                                              UnlockConfirmedSet(now))
                         /\ Reply(r, Unlocked)
                    ELSE /\ devices' = Update(devices, deviceId, "deviceId",
                                              UnlockExpiredSet)
                         /\ Reply(r, Response(408, "Unlock approval timeout. Please try again."))
           ELSE /\ devices' = Update(devices, deviceId, "deviceId",
                                     UnlockAtOnceSet(now))
                /\ Reply(r, Unlocked)
    /\ history' = Recorded(r)
    /\ UNCHANGED <<now, conf>>

----------------------------------------------------------------------------
(* The admin override. *)

(* Mutant: deviceId has priority. *)
AdminUnlockWhereDeviceFirst(unlockRequest) ==
    IF unlockRequest.deviceId # ""
    THEN <<"deviceId", unlockRequest.deviceId>>
    ELSE <<"emergencyId", unlockRequest.emergencyId>>

(* emergencyId has priority: the column and the value of the WHERE clause. *)
AdminUnlockWhere(unlockRequest) ==
    IF unlockRequest.emergencyId # ""
    THEN <<"emergencyId", unlockRequest.emergencyId>>
    ELSE <<"deviceId", unlockRequest.deviceId>>

(* Mutant: the override only records the contact. *)
AdminUnlockSetLastSeenOnly(clock) == [lastSeen |-> isoformat(clock)]

AdminUnlockSet(clock) == [emergencyState |-> 0, lastSeen |-> isoformat(clock)]

AdminRecorded(r) ==
    LET where == AdminUnlockWhere(req[r])
        named == {devices[i].deviceId : i \in Matching(devices, where[2], where[1])}
    IN  IF ~history.recording THEN history
        ELSE [history EXCEPT !.device =
                [d \in DeviceIds |->
                    IF resp'[r].status = 200 /\ d \in named
                    THEN [history.device[d] EXCEPT !.lockedAt = NULL]
                    ELSE history.device[d]]]

adminUnlock(r) ==
    /\ pc[r] = "handler"
    /\ req[r].endpoint = "adminUnlock"
    /\ IF req[r].admin_token # adminToken
       THEN /\ Reply(r, Response(401, "Invalid admin token"))
            /\ UNCHANGED devices
       ELSE IF req[r].emergencyId = "" /\ req[r].deviceId = ""
       THEN /\ Reply(r, Response(400, "Must provide deviceId or emergencyId"))
            /\ UNCHANGED devices
       ELSE LET where == AdminUnlockWhere(req[r])
                rowcount == Cardinality(Matching(devices, where[2], where[1]))
            IN  IF rowcount = 0
                THEN /\ Reply(r, Response(404, "Device not found"))
                     /\ UNCHANGED devices
                ELSE /\ devices' = Update(devices, where[2], where[1],
                                          AdminUnlockSet(now))
                     /\ Reply(r, Response(200, "Device unlocked by admin"))
    /\ history' = AdminRecorded(r)
    /\ UNCHANGED <<now, conf>>

----------------------------------------------------------------------------
(* The clock, and the system. *)

(* A lock request older than the approval window is of no account to the  *)
(* history: it is forgotten when the clock passes the window.              *)
Forgotten(clock) ==
    [history EXCEPT !.device =
        [d \in DeviceIds |->
            [history.device[d] EXCEPT !.lockedAt =
                IF @ # NULL /\ clock - @[1] > lockApprovalTimeSecond
                THEN NULL ELSE @]]]

Tick ==
    /\ now < MaxTime
    /\ now' = now + 1
    /\ history' = Forgotten(now')
    /\ UNCHANGED <<devices, conf, pc, req, resp>>

(* devices.db outlives the process (CREATE TABLE IF NOT EXISTS): the table *)
(* is empty at first start, or holds what earlier runs and the operator    *)
(* left there, such as a device whose userCanUnlock the operator cleared,  *)
(* or a device with a request pending from a run that required approval    *)
(* (server.conf is read anew at every start).                              *)
InitialTables ==
    {<<>>}
    \cup {<<Row("d1", "e1", "k1", isoformat(0), 0, 0)>>}
    \cup {<<[Row("d1", "e1", "k1", isoformat(0), 0, 1)
               EXCEPT !.pendingLockTime = isoformat(0)]>>}

NotRecorded == [recording |-> FALSE, device |-> [d \in DeviceIds |-> NoHistory]]

Init ==
    /\ devices \in InitialTables
    /\ history = NotRecorded
    /\ now = 0
    /\ needRegistrationApproval \in BOOLEAN
    /\ needLockApproval \in BOOLEAN
    /\ pc = [r \in Requests |-> "idle"]
    /\ req = [r \in Requests |-> NoRequest]
    /\ resp = [r \in Requests |-> NoResponse]

(* uvicorn.run serves the app on one event loop, and no dependency or      *)
(* endpoint function awaits: one request is handled at a time.             *)
Serving == {r \in Requests : \A q \in Requests : r <= q}

Next ==
    \/ Tick
    \/ \E r \in Serving : ClientRequest(r)
    \/ \E r \in Serving : MobileRequest(r)
    \/ \E r \in Serving : ArriveRegister(r)
    \/ \E r \in Serving : ArriveAdmin(r)
    \/ \E r \in Serving : clientRegister(r)
    \/ \E r \in Serving : adminRegister(r)
    \/ \E r \in Serving : clientAmIOk(r)
    \/ \E r \in Serving : clientDecrypt(r)
    \/ \E r \in Serving : mobileCheck(r)
    \/ \E r \in Serving : mobileLock(r)
    \/ \E r \in Serving : mobileUnlock(r)
    \/ \E r \in Serving : adminUnlock(r)

Spec == Init /\ [][Next]_vars

----------------------------------------------------------------------------
(* The server with approval required for locking and unlocking (and not    *)
(* for registration, which has no part in that protocol), and the history  *)
(* recorded.  A pendingLockTime the initial table holds was written at     *)
(* time 0, by a first lock request or by a first unlock request.           *)

InitialHistory(rows, endpoint) ==
    [recording |-> TRUE,
     device |->
        [d \in DeviceIds |->
            IF \E i \in DOMAIN rows :
                  rows[i].deviceId = d /\ rows[i].pendingLockTime # NULL
            THEN [pendingBy |-> endpoint,
                  lockedAt |-> IF endpoint = "mobileLock" THEN <<0>> ELSE NULL]
            ELSE NoHistory]]

InitHistory ==
    /\ devices \in InitialTables
    /\ \E endpoint \in {"mobileLock", "mobileUnlock"} :
          history = InitialHistory(devices, endpoint)
    /\ now = 0
    /\ needRegistrationApproval = FALSE
    /\ needLockApproval = TRUE
    /\ pc = [r \in Requests |-> "idle"]
    /\ req = [r \in Requests |-> NoRequest]
    /\ resp = [r \in Requests |-> NoResponse]

SpecHistory == InitHistory /\ [][Next]_vars

----------------------------------------------------------------------------
(* The app served by several processes on one devices.db (uvicorn with     *)
(* workers, or any ASGI server started more than once in the directory):   *)
(* every process handles one request at a time, and the requests of        *)
(* different processes interleave statement by statement.  sqlite runs     *)
(* each SELECT, and each UPDATE with its commit, as one step.  The         *)
(* dependency (one SELECT) is one step, and so are the endpoint functions  *)
(* that run no statement (clientDecrypt, mobileCheck) or whose answer      *)
(* rests on their last statement alone (clientAmIOk); mobileLock and       *)
(* mobileUnlock are a SELECT and then, in a later step, an UPDATE decided  *)
(* on what the SELECT returned.                                            *)

mobileLockSelect(r) ==
    /\ pc[r] = "handler"
    /\ req[r].endpoint = "mobileLock"
    /\ LET row == fetchone(devices, req[r].device[1].deviceId, "deviceId")
       IN  IF row = NULL
           THEN Reply(r, Response(404, "Device not found"))
           ELSE /\ req' = [req EXCEPT ![r].now = now,
                                      ![r].pendingLockTime = row[1].pendingLockTime]
                /\ pc' = [pc EXCEPT ![r] = "update"]
                /\ UNCHANGED resp
    /\ UNCHANGED <<devices, now, conf, history>>

mobileLockUpdate(r) ==
    /\ pc[r] = "update"
    /\ req[r].endpoint = "mobileLock"
    /\ LET deviceId == req[r].device[1].deviceId
           pendingLockTime == req[r].pendingLockTime
       IN  IF needLockApproval
           THEN IF pendingLockTime = NULL
                THEN /\ devices' = Update(devices, deviceId, "deviceId",
                                          FirstPhaseSet(req[r].now))
                     /\ Reply(r, LockPending)
                ELSE IF WithinApprovalWindow(req[r].now, pendingLockTime)
                THEN /\ devices' = Update(devices, deviceId, "deviceId",
                                          LockConfirmedSet(req[r].now))
                     /\ Reply(r, Locked)
                ELSE /\ devices' = Update(devices, deviceId, "deviceId",
                                          LockExpiredSet(req[r].now))
                     /\ Reply(r, LockPending)
           ELSE /\ devices' = Update(devices, deviceId, "deviceId",
                                     LockAtOnceSet(req[r].now))
                /\ Reply(r, Locked)
    /\ UNCHANGED <<now, conf, history>>

mobileUnlockSelect(r) ==
    /\ pc[r] = "handler"
    /\ req[r].endpoint = "mobileUnlock"
    /\ LET device == req[r].device[1]
       IN  IF NotAllowedToUnlock(device)
           THEN /\ Reply(r, Response(403, "Device is not allowed to unlock"))
                /\ UNCHANGED devices
           ELSE IF needLockApproval
           THEN /\ req' = [req EXCEPT
                              ![r].now = now,
                              ![r].pendingLockTime =
                                  fetchone(devices, device.deviceId,
                                           "deviceId")[1].pendingLockTime]
                /\ pc' = [pc EXCEPT ![r] = "update"]
                /\ UNCHANGED <<devices, resp>>
           ELSE /\ devices' = Update(devices, device.deviceId, "deviceId",
                                     UnlockAtOnceSet(now))
                /\ Reply(r, Unlocked)
    /\ UNCHANGED <<now, conf, history>>

mobileUnlockUpdate(r) ==
    /\ pc[r] = "update"
    /\ req[r].endpoint = "mobileUnlock"
    /\ LET deviceId == req[r].device[1].deviceId
           pendingLockTime == req[r].pendingLockTime
       IN  IF pendingLockTime = NULL
           THEN /\ devices' = Update(devices, deviceId, "deviceId",
                                     FirstPhaseSet(req[r].now))
                /\ Reply(r, UnlockPending)
           ELSE IF WithinApprovalWindow(req[r].now, pendingLockTime)
           THEN /\ devices' = Update(devices, deviceId, "deviceId",
                                     UnlockConfirmedSet(req[r].now))
                /\ Reply(r, Unlocked)
           ELSE /\ devices' = Update(devices, deviceId, "deviceId",
                                     UnlockExpiredSet)
                /\ Reply(r, Response(408, "Unlock approval timeout. Please try again."))
    /\ UNCHANGED <<now, conf, history>>

InitWorkers ==
    /\ devices = <<Row("d1", "e1", "k1", isoformat(0), 0, 1)>>
    /\ history = NotRecorded
    /\ now = 0
    /\ needRegistrationApproval = FALSE
    /\ needLockApproval \in BOOLEAN
    /\ pc = [r \in Requests |-> "idle"]
    /\ req = [r \in Requests |-> NoRequest]
    /\ resp = [r \in Requests |-> NoResponse]

NextWorkers ==
    \/ Tick
    \/ \E r \in Requests : ClientRequest(r)
    \/ \E r \in Requests : MobileRequest(r)
    \/ \E r \in Requests : clientAmIOk(r)
    \/ \E r \in Requests : clientDecrypt(r)
    \/ \E r \in Requests : mobileCheck(r)
    \/ \E r \in Requests : mobileLockSelect(r)
    \/ \E r \in Requests : mobileLockUpdate(r)
    \/ \E r \in Requests : mobileUnlockSelect(r)
    \/ \E r \in Requests : mobileUnlockUpdate(r)

SpecWorkers == InitWorkers /\ [][NextWorkers]_vars

----------------------------------------------------------------------------
(* The Verifier on its own: two registered devices, and callers that send  *)
(* any identifier, any timestamp string and any signature string.  Here    *)
(* the headers of a request stay in req while its dependency runs, and     *)
(* after it when the dependency rejects the request.  Both dependencies    *)
(* are exercised, through one endpoint each that leaves the table alone.   *)

Arrive(r) ==
    /\ pc[r] = "idle"
    /\ \E endpoint \in {"clientDecrypt", "mobileCheck"},
          x_id \in DeviceIds \cup EmergencyIds \cup {"dx", "ex"},
          x_timestamp \in Timestamps, x_signature \in Signatures :
          /\ endpoint \in ClientEndpoints => x_id \in DeviceIds \cup {"dx"}
          /\ endpoint \in MobileEndpoints => x_id \in EmergencyIds \cup {"ex"}
          /\ req' = [req EXCEPT ![r] =
                        [NoRequest EXCEPT !.endpoint = endpoint, !.x_id = x_id,
                                          !.x_timestamp = x_timestamp,
                                          !.x_signature = x_signature]]
    /\ pc' = [pc EXCEPT ![r] = "auth"]
    /\ resp' = [resp EXCEPT ![r] = NoResponse]
    /\ UNCHANGED <<devices, now, conf, history>>

ClientAuth(r) ==
    /\ pc[r] = "auth"
    /\ req[r].endpoint \in ClientEndpoints
    /\ verifyClientAuth(r, req[r].endpoint, req[r].x_id, req[r].x_timestamp,
                        req[r].x_signature)

MobileAuth(r) ==
    /\ pc[r] = "auth"
    /\ req[r].endpoint \in MobileEndpoints
    /\ verifyMobileAuth(r, req[r].endpoint, req[r].x_id, req[r].x_timestamp,
                        req[r].x_signature)

InitVerifier ==
    /\ devices = <<Row("d1", "e1", "k1", isoformat(0), 0, 1),
                   Row("d2", "e2", "k2", isoformat(0), 0, 1)>>
    /\ history = NotRecorded
    /\ now = 0
    /\ needRegistrationApproval = FALSE
    /\ needLockApproval = FALSE
    /\ pc = [r \in Requests |-> "idle"]
    /\ req = [r \in Requests |-> NoRequest]
    /\ resp = [r \in Requests |-> NoResponse]

NextVerifier ==
    \/ Tick
    \/ \E r \in Serving : Arrive(r)
    \/ \E r \in Serving : ClientAuth(r)
    \/ \E r \in Serving : MobileAuth(r)
    \/ \E r \in Serving : clientDecrypt(r)
    \/ \E r \in Serving : mobileCheck(r)

SpecVerifier == InitVerifier /\ [][NextVerifier]_vars

----------------------------------------------------------------------------
(* Properties.  A step of slot r that runs endpoint function e to its      *)
(* response is Runs(r, e); the device it was authenticated for is          *)
(* req[r].device, and Before(r) and After(r) are that device's row before  *)
(* and after the step.                                                     *)

Runs(r, endpoint) ==
    /\ pc[r] = "handler"
    /\ req[r].endpoint = endpoint
    /\ pc'[r] = "idle"

TheRow(rows, deviceId) ==
    rows[CHOOSE i \in DOMAIN rows : rows[i].deviceId = deviceId]

Before(r) == TheRow(devices, req[r].device[1].deviceId)
After(r) == TheRow(devices', req[r].device[1].deviceId)

Expired(row) ==
    /\ row.pendingLockTime # NULL
    /\ now - row.pendingLockTime[1] > lockApprovalTimeSecond

InWindow(row) ==
    /\ row.pendingLockTime # NULL
    /\ now - row.pendingLockTime[1] <= lockApprovalTimeSecond

(* C1: with approval required, a lock request for a device in Idle is      *)
(* answered 201 "confirmation pending", sets pendingLockTime to the        *)
(* current time and leaves emergencyState as it was; a lock request at     *)
(* most lockApprovalTimeSecond after pendingLockTime is answered 200       *)
(* "applied", sets emergencyState and clears pendingLockTime.              *)
C1_TwoPhaseLock ==
    [][\A r \in Requests :
          Runs(r, "mobileLock") /\ needLockApproval =>
             /\ Before(r).pendingLockTime = NULL =>
                   /\ resp'[r].status = 201
                   /\ After(r).pendingLockTime = <<now>>
                   /\ After(r).emergencyState = Before(r).emergencyState
             /\ InWindow(Before(r)) =>
                   /\ resp'[r].status = 200
                   /\ After(r).emergencyState = 1
                   /\ After(r).pendingLockTime = NULL]_vars

(* A lock was confirmed: answered 200 under approval, the device is armed  *)
(* and Idle again.                                                         *)
C1_Witness ==
    \E r \in Requests, i \in DOMAIN devices :
       /\ needLockApproval
       /\ pc[r] = "idle"
       /\ resp[r] = Locked
       /\ devices[i].emergencyState = 1
       /\ devices[i].pendingLockTime = NULL
       /\ devices[i].lastSeen = <<now>>

(* C2: with approval required and userCanUnlock set, an unlock request     *)
(* later than lockApprovalTimeSecond after pendingLockTime is answered 408 *)
(* (timeout), clears pendingLockTime and leaves emergencyState as it was;  *)
(* an unlock request for a device in Idle is a first phase: answered 201,  *)
(* with pendingLockTime set to the current time.                           *)
C2_UnlockTimeout ==
    [][\A r \in Requests :
          Runs(r, "mobileUnlock") /\ needLockApproval
          /\ req[r].device[1].userCanUnlock # 0 =>
             /\ Expired(Before(r)) =>
                   /\ resp'[r].status = 408
                   /\ After(r).pendingLockTime = NULL
                   /\ After(r).emergencyState = Before(r).emergencyState
             /\ Before(r).pendingLockTime = NULL =>
                   /\ resp'[r].status = 201
                   /\ After(r).pendingLockTime = <<now>>
                   /\ After(r).emergencyState = Before(r).emergencyState]_vars

(* An unlock request timed out, and the table holds no pending request.    *)
C2_Witness ==
    \E r \in Requests :
       /\ needLockApproval
       /\ pc[r] = "idle"
       /\ resp[r].status = 408
       /\ \A i \in DOMAIN devices : devices[i].pendingLockTime = NULL

(* C3: with approval required, a lock request later than                   *)
(* lockApprovalTimeSecond after pendingLockTime is answered 201            *)
(* "confirmation pending", sets pendingLockTime to the current time and    *)
(* leaves emergencyState as it was; no lock request is answered with an    *)
(* error.                                                                  *)
C3_LockRestartsWindow ==
    [][\A r \in Requests :
          Runs(r, "mobileLock") /\ needLockApproval =>
             /\ resp'[r].status \in {200, 201}
             /\ Expired(Before(r)) =>
                   /\ resp'[r] = LockPending
                   /\ After(r).pendingLockTime = <<now>>
                   /\ After(r).emergencyState = Before(r).emergencyState]_vars

(* A lock request is about to run for a device whose window has expired    *)
(* (the answer of the restarted window is the answer of a first phase, so  *)
(* the state after it does not tell them apart).                           *)
C3_Witness ==
    \E r \in Requests :
       /\ needLockApproval
       /\ pc[r] = "handler"
       /\ req[r].endpoint = "mobileLock"
       /\ Expired(TheRow(devices, req[r].device[1].deviceId))

(* C4: an unlock request for a device with userCanUnlock = 0 is answered   *)
(* 403 and changes no row, with or without approval and whatever           *)
(* pendingLockTime is; a lock request for such a device is answered 200 or *)
(* 201.                                                                    *)
C4_PermissionGate ==
    [][\A r \in Requests :
          /\ Runs(r, "mobileUnlock") /\ req[r].device[1].userCanUnlock = 0 =>
                /\ resp'[r] = Response(403, "Device is not allowed to unlock")
                /\ devices' = devices
          /\ Runs(r, "mobileLock") /\ req[r].device[1].userCanUnlock = 0 =>
                resp'[r].status \in {200, 201}]_vars

(* An unlock was denied to an armed device with a pending request.         *)
C4_Witness ==
    \E r \in Requests, i \in DOMAIN devices :
       /\ pc[r] = "idle"
       /\ resp[r] = Response(403, "Device is not allowed to unlock")
       /\ devices[i].userCanUnlock = 0
       /\ devices[i].emergencyState = 1
       /\ devices[i].pendingLockTime # NULL

(* The rows an admin unlock request names: by emergencyId when it gives a  *)
(* non-empty one, else by deviceId.                                        *)
AdminNamed(rows, r) ==
    IF req[r].emergencyId # ""
    THEN {i \in DOMAIN rows : rows[i].emergencyId = req[r].emergencyId}
    ELSE {i \in DOMAIN rows : rows[i].deviceId = req[r].deviceId}

(* C5 as the spec states it: an admin unlock with the right admin token    *)
(* and an identifier that names a row leaves that row with                 *)
(* emergencyState = 0 and pendingLockTime NULL.                            *)
C5_AdminClearsPending ==
    [][\A r \in Requests :
          Runs(r, "adminUnlock") /\ req[r].admin_token = adminToken =>
             \A i \in AdminNamed(devices, r) :
                /\ devices'[i].emergencyState = 0
                /\ devices'[i].pendingLockTime = NULL]_vars

(* C5 as the code has it: an admin unlock with the right admin token and   *)
(* an identifier that names a row (emergencyId first) is answered 200 and  *)
(* leaves that row with emergencyState = 0 and lastSeen the current time   *)
(* in one step, from Idle, from an open window and from an expired one;    *)
(* pendingLockTime stays what it was, and every other row is unchanged.    *)
C5_AdminOverride ==
    [][\A r \in Requests :
          Runs(r, "adminUnlock") /\ req[r].admin_token = adminToken
          /\ AdminNamed(devices, r) # {} =>
             /\ resp'[r] = Response(200, "Device unlocked by admin")
             /\ DOMAIN devices' = DOMAIN devices
             /\ \A i \in DOMAIN devices :
                   IF i \in AdminNamed(devices, r)
                   THEN devices'[i] =
                           [devices[i] EXCEPT !.emergencyState = 0,
                                              !.lastSeen = <<now>>]
                   ELSE devices'[i] = devices[i]]_vars

(* The admin unlocked a device that is now disarmed with its confirmation  *)
(* still pending, while another device stays armed.                        *)
C5_Witness ==
    \E r \in Requests, i, j \in DOMAIN devices :
       /\ pc[r] = "idle"
       /\ resp[r] = Response(200, "Device unlocked by admin")
       /\ devices[i].emergencyState = 0
       /\ devices[i].pendingLockTime # NULL
       /\ devices[i].lastSeen = <<now>>
       /\ devices[j].emergencyState = 1

(* C6: an admin unlock is answered with an error and changes no row when   *)
(* the admin token is wrong (401), when it gives neither identifier (400)  *)
(* and when the identifier it goes by, emergencyId if it gives one and     *)
(* deviceId otherwise, names no row (404), also when it gives a deviceId   *)
(* that names a row beside an emergencyId that names none.                 *)
C6_AdminFailure ==
    [][\A r \in Requests :
          Runs(r, "adminUnlock") =>
             /\ req[r].admin_token # adminToken =>
                   resp'[r].status = 401 /\ devices' = devices
             /\ req[r].admin_token = adminToken
                /\ req[r].emergencyId = "" /\ req[r].deviceId = "" =>
                   resp'[r].status = 400 /\ devices' = devices
             /\ req[r].admin_token = adminToken
                /\ \/ req[r].emergencyId # ""
                      /\ \A i \in DOMAIN devices :
                            devices[i].emergencyId # req[r].emergencyId
                   \/ req[r].emergencyId = "" /\ req[r].deviceId # ""
                      /\ \A i \in DOMAIN devices :
                            devices[i].deviceId # req[r].deviceId
                => resp'[r].status = 404 /\ devices' = devices]_vars

(* An admin unlock is about to run with the right token, an emergencyId    *)
(* that names no row and the deviceId of an armed device.                  *)
C6_Witness ==
    \E r \in Requests, i \in DOMAIN devices :
       /\ pc[r] = "handler"
       /\ req[r].endpoint = "adminUnlock"
       /\ req[r].admin_token = adminToken
       /\ req[r].emergencyId = "ex"
       /\ req[r].deviceId = devices[i].deviceId
       /\ devices[i].emergencyState = 1

(* C10: a run of mobileCheck or of clientAmIOk leaves emergencyState and   *)
(* pendingLockTime of every row as they were.                              *)
C10_StatusChecksReadOnly ==
    [][\A r \in Requests :
          Runs(r, "mobileCheck") \/ Runs(r, "clientAmIOk") =>
             /\ DOMAIN devices' = DOMAIN devices
             /\ \A i \in DOMAIN devices :
                   /\ devices'[i].emergencyState = devices[i].emergencyState
                   /\ devices'[i].pendingLockTime = devices[i].pendingLockTime]_vars

(* The client's status check was answered ok, at a time later than the     *)
(* pending request its device still has.                                   *)
C10_Witness ==
    \E r \in Requests, i \in DOMAIN devices :
       /\ pc[r] = "idle"
       /\ resp[r] = Response(200, "ok")
       /\ devices[i].lastSeen = <<now>>
       /\ devices[i].pendingLockTime # NULL
       /\ devices[i].pendingLockTime # <<now>>

----------------------------------------------------------------------------
(* Properties of the Verifier, under SpecVerifier.  AuthStep(r) is the     *)
(* step in which the dependency of request r runs: it ends in "handler"    *)
(* when the request is accepted and in "idle", with a response, when it is *)
(* rejected.  Named(r) are the rows the identifier of request r names.     *)

AuthStep(r) == pc[r] = "auth" /\ pc'[r] # "auth"

Named(r) ==
    {i \in DOMAIN devices :
        IF req[r].endpoint \in ClientEndpoints
        THEN devices[i].deviceId = req[r].x_id
        ELSE devices[i].emergencyId = req[r].x_id}

Stale(timestamp, clock) ==
    \/ clock - timestamp[2] > hmacWindow
    \/ timestamp[2] - clock > hmacWindow

(* C7 as the spec states it: every request the dependency rejects, for an  *)
(* unknown identifier, a timestamp that is no number, a stale timestamp or *)
(* a wrong signature, gets one and the same answer (the one a wrong        *)
(* signature gets).                                                        *)
C7_UniformFailure ==
    [][\A r \in Requests :
          AuthStep(r) /\ pc'[r] = "idle" /\ req[r].x_signature[1] # "nonascii" =>
             resp'[r] = Response(401, "Invalid HMAC signature")]_vars

(* C8: a request whose timestamp is a number further than hmacWindow from  *)
(* the clock, before or after, is rejected with 401 whatever its signature *)
(* is; a request for a registered device whose timestamp is exactly        *)
(* hmacWindow from the clock, with the digest of that device's token and   *)
(* the timestamp header, is accepted.                                      *)
C8_Freshness ==
    [][\A r \in Requests :
          AuthStep(r) /\ CanParseInt(req[r].x_timestamp) =>
             /\ Stale(req[r].x_timestamp, now) =>
                   pc'[r] = "idle" /\ resp'[r].status = 401
             /\ \A i \in Named(r) :
                   /\ Abs(now - int(req[r].x_timestamp)) = hmacWindow
                   /\ req[r].x_signature =
                         hexdigest(devices[i].token, req[r].x_timestamp)
                   => pc'[r] = "handler"]_vars

(* A request for a registered device was rejected that carried a timestamp *)
(* of the future, still beyond the window now, and the digest of the       *)
(* device's token and that timestamp.                                      *)
C8_Witness ==
    \E r \in Requests, i \in DOMAIN devices :
       /\ pc[r] = "idle"
       /\ resp[r] = Response(401, "Invalid HMAC signature")
       /\ i \in Named(r)
       /\ CanParseInt(req[r].x_timestamp)
       /\ int(req[r].x_timestamp) - now > hmacWindow
       /\ req[r].x_signature = hexdigest(devices[i].token, req[r].x_timestamp)

(* C9: a request for a registered device whose timestamp is a number       *)
(* within hmacWindow of the clock is accepted exactly when its signature   *)
(* is the digest of the device's token and the timestamp header as sent;   *)
(* a request whose timestamp is no number is rejected with 401.            *)
C9_SignatureCheck ==
    [][\A r \in Requests :
          AuthStep(r) =>
             /\ ~CanParseInt(req[r].x_timestamp) =>
                   pc'[r] = "idle" /\ resp'[r].status = 401
             /\ \A i \in Named(r) :
                   /\ CanParseInt(req[r].x_timestamp)
                   /\ ~Stale(req[r].x_timestamp, now)
                   => (pc'[r] = "handler" <=>
                          req[r].x_signature =
                             hexdigest(devices[i].token, req[r].x_timestamp))]_vars

(* A request was accepted whose timestamp is not the canonical numeral,    *)
(* signed as sent.                                                         *)
C9_Witness ==
    \E r \in Requests :
       /\ pc[r] = "handler"
       /\ req[r].x_timestamp[1] = "alt"
       /\ req[r].x_signature =
             hexdigest(req[r].device[1].token, req[r].x_timestamp)

(* C12 as claimed: a response carries a device's token only when it is the *)
(* response of the registration operation.                                 *)
C12_SecretOnlyAtRegistration ==
    [][\A r \in Requests :
          resp'[r] # resp[r] /\ resp'[r].token # "" =>
             Runs(r, "clientRegister")]_vars

(* C12: a response carries a token only when it is the 200 response of     *)
(* clientRegister, with the token of the row of the deviceId it names, or  *)
(* the 200 response of clientDecrypt for a device whose authenticated row  *)
(* has emergencyState 0, with the token of that row; mobileCheck,          *)
(* mobileLock, mobileUnlock, clientAmIOk, adminRegister, adminUnlock and   *)
(* every error response carry none.                                        *)
C12_SecretDisclosure ==
    [][\A r \in Requests :
          resp'[r] # resp[r] /\ resp'[r].token # "" =>
             /\ resp'[r].status = 200
             /\ \/ /\ Runs(r, "clientRegister")
                   /\ \E i \in DOMAIN devices' :
                         /\ devices'[i].deviceId = resp'[r].deviceId
                         /\ devices'[i].token = resp'[r].token
                \/ /\ Runs(r, "clientDecrypt")
                   /\ req[r].device[1].emergencyState = 0
                   /\ resp'[r].token = req[r].device[1].token]_vars

(* clientDecrypt has answered with the token of a registered device.       *)
C12_Witness ==
    \E r \in Requests, i \in DOMAIN devices :
       /\ pc[r] = "idle"
       /\ resp[r].status = 200
       /\ resp[r].deviceId = ""
       /\ resp[r].token = devices[i].token

(* The step is the endpoint function e answering `response` for the device *)
(* of row i.                                                               *)
Applied(i, endpoint, response) ==
    \E r \in Requests :
       /\ Runs(r, endpoint)
       /\ resp'[r] = response
       /\ req[r].device[1].deviceId = devices[i].deviceId

(* C13: a row is inserted with emergencyState 0; a step that takes a row's *)
(* emergencyState from 0 to 1 is a mobileLock answered "Device locked" for *)
(* that device, and a step that takes it from 1 to 0 is a mobileUnlock     *)
(* answered "Device unlocked" for that device or an adminUnlock answered   *)
(* 200 that names the row.  No other step changes emergencyState.          *)
C13_ArmedProvenance ==
    [][/\ \A i \in DOMAIN devices :
             /\ i \in DOMAIN devices'
             /\ devices[i].emergencyState = 0 /\ devices'[i].emergencyState # 0 =>
                   Applied(i, "mobileLock", Locked)
             /\ devices[i].emergencyState # 0 /\ devices'[i].emergencyState = 0 =>
                   \/ Applied(i, "mobileUnlock", Unlocked)
                   \/ \E r \in Requests :
                         /\ Runs(r, "adminUnlock")
                         /\ resp'[r].status = 200
                         /\ i \in AdminNamed(devices, r)
             /\ devices'[i].emergencyState \in {0, 1}
       /\ \A i \in DOMAIN devices' \ DOMAIN devices :
             devices'[i].emergencyState = 0]_vars

(* mobileUnlock is about to run, without approval, for a device that is    *)
(* marked as stolen and may be unlocked by its owner.                      *)
C13_Witness ==
    \E r \in Requests :
       /\ pc[r] = "handler"
       /\ req[r].endpoint = "mobileUnlock"
       /\ ~needLockApproval
       /\ req[r].device[1].userCanUnlock # 0
       /\ Before(r).emergencyState = 1

(* A lock or unlock request that the endpoint function lets through:      *)
(* mobileLock always, mobileUnlock for a device with userCanUnlock set.    *)
Transition(r) ==
    \/ Runs(r, "mobileLock")
    \/ Runs(r, "mobileUnlock") /\ req[r].device[1].userCanUnlock # 0

Target(r) == IF req[r].endpoint = "mobileLock" THEN 1 ELSE 0

(* C14 as claimed: without approval, every lock request and every unlock   *)
(* request of a device with userCanUnlock set is answered 200, sets        *)
(* emergencyState to the target value and lastSeen to the current time,    *)
(* and leaves pendingLockTime NULL.                                        *)
C14_SinglePhaseClearsPending ==
    [][\A r \in Requests :
          Transition(r) /\ ~needLockApproval =>
             /\ resp'[r] = IF Target(r) = 1 THEN Locked ELSE Unlocked
             /\ After(r).emergencyState = Target(r)
             /\ After(r).lastSeen = <<now>>
             /\ After(r).pendingLockTime = NULL]_vars

(* C14: without approval, every lock request and every unlock request of a *)
(* device with userCanUnlock set is answered 200, sets emergencyState to   *)
(* the target value and lastSeen to the current time, and leaves           *)
(* pendingLockTime as it was.                                              *)
C14_SinglePhase ==
    [][\A r \in Requests :
          Transition(r) /\ ~needLockApproval =>
             /\ resp'[r] = IF Target(r) = 1 THEN Locked ELSE Unlocked
             /\ After(r).emergencyState = Target(r)
             /\ After(r).lastSeen = <<now>>
             /\ After(r).pendingLockTime = Before(r).pendingLockTime]_vars

(* Without approval a lock request was applied to a device that had a      *)
(* request pending: the device is marked as stolen and the request is      *)
(* still pending.                                                          *)
C14_Witness ==
    \E r \in Requests, i \in DOMAIN devices :
       /\ ~needLockApproval
       /\ pc[r] = "idle"
       /\ resp[r] = Locked
       /\ devices[i].emergencyState = 1
       /\ devices[i].lastSeen = <<now>>
       /\ devices[i].pendingLockTime # NULL

(* C15 as claimed: every lock or unlock request answered 201 or 200 sets   *)
(* the device's lastSeen to the current time.                              *)
C15_EveryPhaseSetsLastSeen ==
    [][\A r \in Requests :
          Transition(r) /\ resp'[r].status \in {200, 201} =>
             After(r).lastSeen = <<now>>]_vars

(* C15: a lock or unlock request answered 200 ("applied") sets the         *)
(* device's lastSeen to the current time; one answered 201 ("confirmation  *)
(* pending", the restarted window included) leaves lastSeen as it was.     *)
C15_AppliedSetsLastSeen ==
    [][\A r \in Requests :
          Transition(r) =>
             /\ resp'[r].status = 200 => After(r).lastSeen = <<now>>
             /\ resp'[r].status = 201 => After(r).lastSeen = Before(r).lastSeen]_vars

(* A first lock request was answered 201 for a device last seen earlier:   *)
(* the request is pending since now, lastSeen is still the earlier time.   *)
C15_Witness ==
    \E r \in Requests, i \in DOMAIN devices :
       /\ needLockApproval
       /\ pc[r] = "idle"
       /\ resp[r] = LockPending
       /\ devices[i].pendingLockTime = <<now>>
       /\ devices[i].lastSeen # <<now>>

(* C17 as claimed: no two rows of the table have the same deviceId, and no *)
(* two rows have the same emergencyId.                                     *)
C17_UniqueIdentifiers ==
    \A i, j \in DOMAIN devices :
       i # j =>
          /\ devices[i].deviceId # devices[j].deviceId
          /\ devices[i].emergencyId # devices[j].emergencyId

(* C19: a request that its authentication dependency rejects, for an       *)
(* unknown identifier, a timestamp that is no number, a stale timestamp or *)
(* a wrong signature, leaves every column of every row as it was.          *)
C19_RejectedLeavesTable ==
    [][\A r \in Requests :
          AuthStep(r) /\ pc'[r] = "idle" => devices' = devices]_vars

(* A client request that names a registered device, with the current time  *)
(* and the digest another device's token gives, was rejected after the     *)
(* clock had moved on from the rows' lastSeen.                             *)
C19_Witness ==
    \E r \in Requests, i, j \in DOMAIN devices :
       /\ pc[r] = "idle"
       /\ resp[r] = Response(401, "Invalid HMAC signature")
       /\ req[r].endpoint \in ClientEndpoints
       /\ req[r].x_id = devices[i].deviceId
       /\ req[r].x_timestamp = <<"dec", now>>
       /\ i # j
       /\ req[r].x_signature = hexdigest(devices[j].token, req[r].x_timestamp)
       /\ devices[i].lastSeen # <<now>>

(* What the history holds for the device of request r. *)
Past(r) == history.device[req[r].device[1].deviceId]

(* C16 as claimed: with approval required, a lock request is answered      *)
(* "applied" only when the pendingLockTime it found was written by a lock  *)
(* request, an unlock request is answered "applied" or "timeout" only when *)
(* it was written by an unlock request, and a lock request restarts the    *)
(* window only of a lock request.                                          *)
C16_OneDirection ==
    [][\A r \in Requests :
          needLockApproval =>
             /\ Runs(r, "mobileLock") /\ Before(r).pendingLockTime # NULL =>
                   Past(r).pendingBy = "mobileLock"
             /\ Runs(r, "mobileUnlock") /\ resp'[r].status \in {200, 408} =>
                   Past(r).pendingBy = "mobileUnlock"]_vars

WritesBack(r) == pc[r] = "update" /\ pc'[r] = "idle"

(* C11 as claimed: with approval required, a lock or unlock request that   *)
(* read pendingLockTime, decided and writes back does so as if in one      *)
(* step: when it writes a fresh pendingLockTime (201) the row still holds  *)
(* none, and when it applies the transition (200) the row still holds the  *)
(* pendingLockTime it read; so no two requests both write a fresh          *)
(* pendingLockTime from Idle, and no two both apply on one confirmation    *)
(* window.                                                                 *)
C11_AtomicTransition ==
    [][\A r \in Requests :
          WritesBack(r) /\ needLockApproval =>
             /\ resp'[r].status = 201 /\ req[r].pendingLockTime = NULL =>
                   Before(r).pendingLockTime = NULL
             /\ resp'[r].status = 200 =>
                   Before(r).pendingLockTime = req[r].pendingLockTime]_vars

(* C18 as claimed: clientAmIOk answers ok, and clientDecrypt answers with  *)
(* the token, only when the row of the device has emergencyState 0 at the  *)
(* step that answers, whatever was written since the dependency read the   *)
(* row; when it has not, the answer is 403 "Device marked as stolen".      *)
C18_SuccessOnlyUnarmed ==
    [][\A r \in Requests :
          Runs(r, "clientAmIOk") \/ Runs(r, "clientDecrypt") =>
             IF After(r).emergencyState = 0
             THEN resp'[r].status = 200
             ELSE resp'[r] = Response(403, "Device marked as stolen")]_vars

====
